---------------------------- MODULE Spec2Model ----------------------------
(***************************************************************************)
(* Model of book_figures/chapter4/fig_lyndenbell_toy.py: the script that   *)
(* draws a truncated bivariate sample, computes the per-point truncation   *)
(* limits, filters the sample to the observable region, calls               *)
(* astroML.lumfunc.bootstrap_Cminus on it and plots the result.             *)
(*                                                                          *)
(* The program counter pc names the source line about to run.  Numbers are *)
(* exact rationals <<num, den>>; every floating-point operation of the      *)
(* script rounds its exact result to a binary float of Precision           *)
(* significant bits (round to nearest, ties to even), as IEEE arithmetic   *)
(* does with 53 bits.  The arrays hold the first SampleLen of the N        *)
(* observations the script draws.                                           *)
(***************************************************************************)
EXTENDS Integers, Sequences, FiniteSets

VARIABLES
    pc,        \* source line about to run, or "done" / "error"
    run,       \* which execution of the script this is (1 = first)
    rng,       \* numpy's global generator: <<stream id, position>>
    memo,      \* outputs the generator has produced, by <<stream id, position>>
    rvs_size,  \* the size argument the last rvs call was given
    drawn,     \* the sample as drawn (before truncation): [x |-> , y |-> ]
    x, y,      \* the script's arrays x, y
    xmax, ymax,\* the script's arrays xmax, ymax
    flag,      \* the boolean mask
    x_fit, y_fit,
    call,      \* keyword arguments of the bootstrap_Cminus call made
    x_dist, dx_dist, y_dist, dy_dist,
    x_mid, y_mid,
    plotted,   \* plt.show() was reached
    prev       \* what the previous execution drew, retained and computed

vars == <<pc, run, rng, memo, rvs_size, drawn, x, y, xmax, ymax, flag,
          x_fit, y_fit, call, x_dist, dx_dist, y_dist, dy_dist,
          x_mid, y_mid, plotted, prev>>

---------------------------------------------------------------------------
(* Bounds of the model *)

\* observations of the sample the arrays carry
MaxLen == 2
\* significant bits of the floating-point format
Precision == 6
\* executions of the script in one behaviour
MaxRuns == 2
\* binades below 1 of the inputs the truncation rule is explored on
MaxBinades == 3

---------------------------------------------------------------------------
(* Exact rational arithmetic *)

RECURSIVE GCD(_, _)
GCD(a, b) == IF b = 0 THEN a ELSE GCD(b, a % b)

Abs(a) == IF a < 0 THEN -a ELSE a

Pow2(k) == IF k <= 0 THEN 1 ELSE 2 ^ k

\* the rational n/d (d # 0) in lowest terms with a positive denominator
Rat(n, d) ==
    LET g == GCD(Abs(n), Abs(d))
        s == IF d < 0 THEN -1 ELSE 1
    IN  <<(s * n) \div g, (s * d) \div g>>

Zero == <<0, 1>>
One  == <<1, 1>>
Half == <<1, 2>>

RAdd(p, q) == Rat(p[1] * q[2] + q[1] * p[2], p[2] * q[2])
RSub(p, q) == Rat(p[1] * q[2] - q[1] * p[2], p[2] * q[2])
RMul(p, q) == Rat(p[1] * q[1], p[2] * q[2])
RDiv(p, q) == Rat(p[1] * q[2], p[2] * q[1])
RLt(p, q)  == p[1] * q[2] < q[1] * p[2]
RLe(p, q)  == p[1] * q[2] <= q[1] * p[2]
RAbs(p)    == <<Abs(p[1]), p[2]>>

RECURSIVE RSum(_, _)
\* sum of f[i] over the finite set S
RSum(f, S) ==
    IF S = {} THEN Zero
    ELSE LET i == CHOOSE j \in S : TRUE IN RAdd(f[i], RSum(f, S \ {i}))

RECURSIVE RSumRange(_, _, _)
\* sum of f[lo], ..., f[hi], by halves
RSumRange(f, lo, hi) ==
    IF lo > hi THEN Zero
    ELSE IF lo = hi THEN f[lo]
    ELSE LET mid == (lo + hi) \div 2
         IN  RAdd(RSumRange(f, lo, mid), RSumRange(f, mid + 1, hi))

RECURSIVE RProd(_, _)
RProd(f, S) ==
    IF S = {} THEN One
    ELSE LET i == CHOOSE j \in S : TRUE IN RMul(f[i], RProd(f, S \ {i}))

---------------------------------------------------------------------------
(* Floating point: the result of every arithmetic operation is rounded *)

\* 2^e <= q, for a rational q > 0 and an integer e of either sign
AtLeastPow2(q, e) ==
    IF e >= 0 THEN Pow2(e) * q[2] <= q[1] ELSE q[2] <= q[1] * Pow2(-e)

\* the e with 2^e <= q < 2^(e+1), for 2^lowest <= q < 2^(highest+1)
FloorLog2(q, lowest, highest) ==
    CHOOSE e \in lowest..highest :
        AtLeastPow2(q, e) /\ ~AtLeastPow2(q, e + 1)

\* q >= 0 rounded to the nearest float of Precision bits, ties to even
Round(q) ==
    IF q[1] = 0 THEN Zero
    ELSE LET e     == FloorLog2(q, -(Precision + MaxBinades + 8), 8)
             shift == Precision - 1 - e
             num   == q[1] * Pow2(shift)
             k     == num \div q[2]
             rem   == num % q[2]
             up    == (2 * rem > q[2]) \/ (2 * rem = q[2] /\ k % 2 = 1)
         IN  Rat(IF up THEN k + 1 ELSE k, Pow2(shift))

FAdd(p, q) == Round(RAdd(p, q))
FSub(p, q) == Round(RSub(p, q))
FMul(p, q) == Round(RMul(p, q))
FDiv(p, q) == Round(RDiv(p, q))

\* the distance below which two reals may round to either side of each other
\* in this format: 4 units in the last place of 1, 2^(2 - Precision)
Margin == <<4, Pow2(Precision)>>

---------------------------------------------------------------------------
(* The script's constants *)

N == 10000
SeedValue == 42
NumEdges == 21
Nbootstraps == 20

\* a sample a tenth the size
RvsSizeTenth == N \div 10

\* the size argument of x_pdf.rvs(N) and y_pdf.rvs(N)
RvsSize == N

\* how many of the observations drawn the arrays of the model carry
SampleLen == IF RvsSize < MaxLen THEN RvsSize ELSE MaxLen

\* states the global generator can be in when the process starts: numpy seeds
\* it from the operating system's entropy
EntropyIds == {-1, -2}

\* uniform variates the generator hands to rvs, as quantile indices
Raw == {0, 1, 2}

\* x_pdf = truncnorm(-2, 1, 0.66666, 0.33333) and
\* y_pdf = truncnorm(-1, 2, 0.33333, 0.33333): both have support
\* [0, 0.99999]; rvs maps a uniform variate through the quantile function,
\* here at three quantiles: the bottom of the support, the middle, near the top
x_ppf(u) == CASE u = 0 -> Zero [] u = 1 -> Half [] OTHER -> <<31, 32>>
y_ppf(u) == CASE u = 0 -> Zero [] u = 1 -> Half [] OTHER -> <<31, 32>>

---------------------------------------------------------------------------
(* The script's array expressions *)

\* max_func = lambda t: 1. / (0.5 + t) - 0.5
max_func(t) == FSub(FDiv(One, FAdd(Half, t)), Half)

\* a swapped argument: max_func(x) where max_func(y) is meant
XmaxOfSwapped(xs, ys) == [i \in 1..Len(xs) |-> max_func(xs[i])]

\* max_func(y), elementwise
XmaxOf(xs, ys) == [i \in 1..Len(ys) |-> max_func(ys[i])]

\* the asymmetric slip: both limits computed from y
YmaxOfSame(xs, ys) == [i \in 1..Len(ys) |-> max_func(ys[i])]

\* max_func(x), elementwise
YmaxOf(xs, ys) == [i \in 1..Len(xs) |-> max_func(xs[i])]

\* the clip left out
ClipNone(a) == a

\* a[a > 1] = 1
ClipOf(a) == [i \in 1..Len(a) |-> IF RLt(One, a[i]) THEN One ELSE a[i]]

\* <= where < is meant
FlagLe(xs, ys, xm, ym) ==
    [i \in 1..Len(xs) |-> RLe(xs[i], xm[i]) /\ RLe(ys[i], ym[i])]

\* (x < xmax) & (y < ymax)
FlagOf(xs, ys, xm, ym) ==
    [i \in 1..Len(xs) |-> RLt(xs[i], xm[i]) /\ RLt(ys[i], ym[i])]

RECURSIVE MaskFrom(_, _, _)
MaskFrom(a, f, i) ==
    IF i > Len(a) THEN <<>>
    ELSE IF f[i] THEN <<a[i]>> \o MaskFrom(a, f, i + 1)
         ELSE MaskFrom(a, f, i + 1)

\* a[f] for a boolean mask f as long as a
Mask(a, f) == MaskFrom(a, f, 1)

\* np.linspace(start, stop, num): start + arange(num) * step with
\* step = (stop - start) / (num - 1), the last element set to stop
Linspace(start, stop, num) ==
    LET div  == <<num - 1, 1>>
        step == FDiv(FSub(stop, start), div)
    IN  [i \in 1..num |->
            IF i = num THEN stop
            ELSE FAdd(FMul(<<i - 1, 1>>, step), start)]

\* the upper edge taken twice
MidOfUpper(fit) ==
    [k \in 1..(Len(fit) - 1) |-> FMul(Half, FAdd(fit[k + 1], fit[k + 1]))]

\* 0.5 * (fit[1:] + fit[:-1])
MidOf(fit) ==
    [k \in 1..(Len(fit) - 1) |-> FMul(Half, FAdd(fit[k + 1], fit[k]))]

---------------------------------------------------------------------------
(* astroML.lumfunc.bootstrap_Cminus, the estimator the script calls.  Its   *)
(* arithmetic is exact.                                                     *)

\* mismatched lengths among x, y, xmax, ymax, or fewer than 2 edges in a grid
InputShapeError(xs, ys, xm, ym, xf, yf) ==
    \/ Len(ys) # Len(xs) \/ Len(xm) # Len(xs) \/ Len(ym) # Len(xs)
    \/ Len(xf) < 2 \/ Len(yf) < 2

\* the empty sample let through
InputValidityErrorPointsOnly(xs, ys, xm, ym) ==
    \E i \in 1..Len(xs) : ~RLt(xs[i], xm[i]) \/ ~RLt(ys[i], ym[i])

\* an observation violates x_i < xmax_i or y_i < ymax_i, or N = 0
InputValidityError(xs, ys, xm, ym) ==
    \/ Len(xs) = 0
    \/ \E i \in 1..Len(xs) : ~RLt(xs[i], xm[i]) \/ ~RLt(ys[i], ym[i])

\* observation j comes before observation i when sorted by a
Before(a, j, i) == RLt(a[j], a[i]) \/ (a[j] = a[i] /\ j < i)

\* size of the comparable set of observation i along the axis a: the
\* observations j with bmax_j > b_i, restricted to a_j <= a_i
Comparable(a, b, bmax, i) ==
    Cardinality({j \in 1..Len(a) : RLt(b[i], bmax[j]) /\ RLe(a[j], a[i])})

\* Lynden-Bell's cumulative estimator just below observation i: the product
\* of (1 + 1/N_k) over the observations k before i, the first one left out
CumulBefore(a, b, bmax, i) ==
    LET first(k) == \A j \in 1..Len(a) : ~Before(a, j, k)
        factor   == [k \in 1..Len(a) |->
                        IF first(k) THEN One
                        ELSE LET c == Comparable(a, b, bmax, k)
                             IN  Rat(c + 1, c)]
    IN  RProd(factor, {k \in 1..Len(a) : Before(a, k, i)})

\* the step of the cumulative estimator at observation i
PointMass(a, b, bmax, i) ==
    IF \A j \in 1..Len(a) : ~Before(a, j, i) THEN One
    ELSE RMul(CumulBefore(a, b, bmax, i),
              <<1, Comparable(a, b, bmax, i)>>)

\* the cumulative estimator differenced across the bin edges: the mass of
\* the observations with edges[k] <= a_i < edges[k+1]
BinMass(a, b, bmax, edges) ==
    LET pm == [i \in 1..Len(a) |-> PointMass(a, b, bmax, i)]
    IN  [k \in 1..(Len(edges) - 1) |->
            RSum(pm, {i \in 1..Len(a) :
                        RLe(edges[k], a[i]) /\ RLt(a[i], edges[k + 1])})]

\* the binned density of one axis; a bin nothing contributes to is 0
Density(a, b, bmax, edges, normalize) ==
    LET mass  == BinMass(a, b, bmax, edges)
        total == RSumRange(mass, 1, Len(edges) - 1)
    IN  [k \in DOMAIN mass |->
            LET width == RSub(edges[k + 1], edges[k])
            IN  IF mass[k] = Zero THEN Zero
                ELSE IF normalize THEN RDiv(mass[k], RMul(width, total))
                ELSE RDiv(mass[k], width)]

\* the bootstrap standard error of one axis, per bin: the spread over nb
\* resamples of the observations, each drawn from the generator; its value
\* is a function of the generator's state when the call is made, and is
\* kept as that. 0 replicates give zeros
StdError(axis, nbins, nb, state) ==
    [k \in 1..nbins |->
        IF nb = 0 THEN [axis |-> axis, bin |-> k, stream |-> 0, at |-> 0, reps |-> 0]
        ELSE [axis |-> axis, bin |-> k, stream |-> state[1], at |-> state[2],
              reps |-> nb]]

---------------------------------------------------------------------------
(* The state of a process that has just started the script *)

NoCall == [made |-> FALSE, Nbootstraps |-> 0, normalize |-> FALSE]

NoRun == [status |-> "none", drawn |-> [x |-> <<>>, y |-> <<>>],
          x |-> <<>>, y |-> <<>>, xmax |-> <<>>, ymax |-> <<>>,
          x_dist |-> <<>>, dx_dist |-> <<>>, y_dist |-> <<>>, dy_dist |-> <<>>]

\* what an execution that has ended drew, retained and computed
Outcome == [status |-> pc, drawn |-> drawn,
            x |-> x, y |-> y, xmax |-> xmax, ymax |-> ymax,
            x_dist |-> x_dist, dx_dist |-> dx_dist,
            y_dist |-> y_dist, dy_dist |-> dy_dist]

Fresh ==
    /\ rvs_size = 0
    /\ drawn = [x |-> <<>>, y |-> <<>>]
    /\ x = <<>> /\ y = <<>> /\ xmax = <<>> /\ ymax = <<>> /\ flag = <<>>
    /\ x_fit = <<>> /\ y_fit = <<>>
    /\ call = NoCall
    /\ x_dist = <<>> /\ dx_dist = <<>> /\ y_dist = <<>> /\ dy_dist = <<>>
    /\ x_mid = <<>> /\ y_mid = <<>>
    /\ plotted = FALSE

Init ==
    /\ pc = "L39"
    /\ run = 1
    /\ rng \in {<<e, 0>> : e \in EntropyIds}
    /\ memo = <<>>
    /\ prev = NoRun
    /\ Fresh

---------------------------------------------------------------------------
(* The generator *)

\* the seeding left out: the generator stays as the process found it
Unseeded == rng

\* np.random.seed(42)
Seeded == <<SeedValue, 0>>

\* the generator's states the next n outputs come from
Keys(n) == {<<rng[1], rng[2] + i - 1>> : i \in 1..n}

\* u is what the generator, a deterministic function of its state, hands out
\* next: where it has been in a state before, it repeats what it gave then
Generates(u) ==
    \A i \in DOMAIN u :
        LET k == <<rng[1], rng[2] + i - 1>>
        IN  k \in DOMAIN memo => memo[k] = u[i]

Remember(u) ==
    [k \in DOMAIN memo \cup Keys(Len(u)) |->
        IF k \in DOMAIN memo THEN memo[k] ELSE u[k[2] - rng[2] + 1]]

---------------------------------------------------------------------------
(* The script, line by line *)

\* line 39: np.random.seed(42)
Seed ==
    /\ pc = "L39"
    /\ rng' = Seeded
    /\ pc' = "L45"
    /\ UNCHANGED <<run, memo, rvs_size, drawn, x, y, xmax, ymax, flag,
                   x_fit, y_fit, call, x_dist, dx_dist, y_dist, dy_dist,
                   x_mid, y_mid, plotted, prev>>

\* line 45: x = x_pdf.rvs(N)
DrawX ==
    /\ pc = "L45"
    /\ \E u \in [1..SampleLen -> Raw] :
          /\ Generates(u)
          /\ x' = [i \in 1..SampleLen |-> x_ppf(u[i])]
          /\ memo' = Remember(u)
    /\ drawn' = [drawn EXCEPT !.x = x']
    /\ rvs_size' = RvsSize
    /\ rng' = <<rng[1], rng[2] + RvsSize>>
    /\ pc' = "L46"
    /\ UNCHANGED <<run, y, xmax, ymax, flag, x_fit, y_fit, call,
                   x_dist, dx_dist, y_dist, dy_dist, x_mid, y_mid,
                   plotted, prev>>

\* line 46: y = y_pdf.rvs(N)
DrawY ==
    /\ pc = "L46"
    /\ \E u \in [1..SampleLen -> Raw] :
          /\ Generates(u)
          /\ y' = [i \in 1..SampleLen |-> y_ppf(u[i])]
          /\ memo' = Remember(u)
    /\ drawn' = [drawn EXCEPT !.y = y']
    /\ rvs_size' = RvsSize
    /\ rng' = <<rng[1], rng[2] + RvsSize>>
    /\ pc' = "L53"
    /\ UNCHANGED <<run, x, xmax, ymax, flag, x_fit, y_fit, call,
                   x_dist, dx_dist, y_dist, dy_dist, x_mid, y_mid,
                   plotted, prev>>

\* line 53: xmax = max_func(y)
ComputeXmax ==
    /\ pc = "L53"
    /\ xmax' = XmaxOf(x, y)
    /\ pc' = "L54"
    /\ UNCHANGED <<run, rng, memo, rvs_size, drawn, x, y, ymax, flag,
                   x_fit, y_fit, call, x_dist, dx_dist, y_dist, dy_dist,
                   x_mid, y_mid, plotted, prev>>

\* line 54: xmax[xmax > 1] = 1
ClipXmax ==
    /\ pc = "L54"
    /\ xmax' = ClipOf(xmax)
    /\ pc' = "L56"
    /\ UNCHANGED <<run, rng, memo, rvs_size, drawn, x, y, ymax, flag,
                   x_fit, y_fit, call, x_dist, dx_dist, y_dist, dy_dist,
                   x_mid, y_mid, plotted, prev>>

\* line 56: ymax = max_func(x)
ComputeYmax ==
    /\ pc = "L56"
    /\ ymax' = YmaxOf(x, y)
    /\ pc' = "L57"
    /\ UNCHANGED <<run, rng, memo, rvs_size, drawn, x, y, xmax, flag,
                   x_fit, y_fit, call, x_dist, dx_dist, y_dist, dy_dist,
                   x_mid, y_mid, plotted, prev>>

\* line 57: ymax[ymax > 1] = 1
ClipYmax ==
    /\ pc = "L57"
    /\ ymax' = ClipOf(ymax)
    /\ pc' = "L60"
    /\ UNCHANGED <<run, rng, memo, rvs_size, drawn, x, y, xmax, flag,
                   x_fit, y_fit, call, x_dist, dx_dist, y_dist, dy_dist,
                   x_mid, y_mid, plotted, prev>>

\* line 60: flag = (x < xmax) & (y < ymax)
ComputeFlag ==
    /\ pc = "L60"
    /\ flag' = FlagOf(x, y, xmax, ymax)
    /\ pc' = "L61"
    /\ UNCHANGED <<run, rng, memo, rvs_size, drawn, x, y, xmax, ymax,
                   x_fit, y_fit, call, x_dist, dx_dist, y_dist, dy_dist,
                   x_mid, y_mid, plotted, prev>>

\* line 61: x = x[flag]
FilterX ==
    /\ pc = "L61"
    /\ x' = Mask(x, flag)
    /\ pc' = "L62"
    /\ UNCHANGED <<run, rng, memo, rvs_size, drawn, y, xmax, ymax, flag,
                   x_fit, y_fit, call, x_dist, dx_dist, y_dist, dy_dist,
                   x_mid, y_mid, plotted, prev>>

\* line 62: y = y[flag]
FilterY ==
    /\ pc = "L62"
    /\ y' = Mask(y, flag)
    /\ pc' = "L63"
    /\ UNCHANGED <<run, rng, memo, rvs_size, drawn, x, xmax, ymax, flag,
                   x_fit, y_fit, call, x_dist, dx_dist, y_dist, dy_dist,
                   x_mid, y_mid, plotted, prev>>

\* line 63: xmax = xmax[flag]
FilterXmax ==
    /\ pc = "L63"
    /\ xmax' = Mask(xmax, flag)
    /\ pc' = "L64"
    /\ UNCHANGED <<run, rng, memo, rvs_size, drawn, x, y, ymax, flag,
                   x_fit, y_fit, call, x_dist, dx_dist, y_dist, dy_dist,
                   x_mid, y_mid, plotted, prev>>

\* the line left out: ymax keeps the limits of the points dropped
YmaxUnfiltered == ymax

\* the right-hand side of line 64
YmaxFiltered == Mask(ymax, flag)

\* line 64: ymax = ymax[flag]
FilterYmax ==
    /\ pc = "L64"
    /\ ymax' = YmaxFiltered
    /\ pc' = "L66"
    /\ UNCHANGED <<run, rng, memo, rvs_size, drawn, x, y, xmax, flag,
                   x_fit, y_fit, call, x_dist, dx_dist, y_dist, dy_dist,
                   x_mid, y_mid, plotted, prev>>

\* line 66: x_fit = np.linspace(0, 1, 21)
MakeXfit ==
    /\ pc = "L66"
    /\ x_fit' = Linspace(Zero, One, NumEdges)
    /\ pc' = "L67"
    /\ UNCHANGED <<run, rng, memo, rvs_size, drawn, x, y, xmax, ymax, flag,
                   y_fit, call, x_dist, dx_dist, y_dist, dy_dist,
                   x_mid, y_mid, plotted, prev>>

\* line 67: y_fit = np.linspace(0, 1, 21)
MakeYfit ==
    /\ pc = "L67"
    /\ y_fit' = Linspace(Zero, One, NumEdges)
    /\ pc' = "L71"
    /\ UNCHANGED <<run, rng, memo, rvs_size, drawn, x, y, xmax, ymax, flag,
                   x_fit, call, x_dist, dx_dist, y_dist, dy_dist,
                   x_mid, y_mid, plotted, prev>>

\* bootstrap_Cminus(x, y, xmax, ymax, x_fit, y_fit, Nbootstraps, normalize),
\* called with the generator in the given state: it raises on invalid input,
\* and otherwise returns the two densities, each with its bootstrap error,
\* one value per bin of its grid
bootstrap_Cminus(xs, ys, xm, ym, xf, yf, nb, normalize, state) ==
    IF \/ InputShapeError(xs, ys, xm, ym, xf, yf)
       \/ InputValidityError(xs, ys, xm, ym)
    THEN [raised |-> TRUE,
          x_dist |-> <<>>, dx_dist |-> <<>>, y_dist |-> <<>>, dy_dist |-> <<>>]
    ELSE [raised  |-> FALSE,
          x_dist  |-> Density(xs, ys, ym, xf, normalize),
          dx_dist |-> StdError("x", Len(xf) - 1, nb, state),
          y_dist  |-> Density(ys, xs, xm, yf, normalize),
          dy_dist |-> StdError("y", Len(yf) - 1, nb, state)]

\* normalize=False passed
NormalizeOff == FALSE

\* the normalize keyword of the call on line 74
NormalizeArg == TRUE

\* lines 71-74: x_dist, dx_dist, y_dist, dy_dist = bootstrap_Cminus(...);
\* an exception the call raises is not caught: the script ends there
CallEstimator ==
    /\ pc = "L71"
    /\ call' = [made |-> TRUE, Nbootstraps |-> Nbootstraps,
                normalize |-> NormalizeArg]
    /\ LET r == bootstrap_Cminus(x, y, xmax, ymax, x_fit, y_fit,
                                 Nbootstraps, NormalizeArg, rng)
       IN  IF r.raised
           THEN /\ pc' = "error"
                /\ UNCHANGED <<rng, x_dist, dx_dist, y_dist, dy_dist>>
           ELSE /\ pc' = "L76"
                /\ x_dist' = r.x_dist
                /\ dx_dist' = r.dx_dist
                /\ y_dist' = r.y_dist
                /\ dy_dist' = r.dy_dist
                /\ rng' = <<rng[1], rng[2] + Nbootstraps * Len(x)>>
    /\ UNCHANGED <<run, memo, rvs_size, drawn, x, y, xmax, ymax, flag,
                   x_fit, y_fit, x_mid, y_mid, plotted, prev>>

\* line 76: x_mid = 0.5 * (x_fit[1:] + x_fit[:-1])
MakeXmid ==
    /\ pc = "L76"
    /\ x_mid' = MidOf(x_fit)
    /\ pc' = "L77"
    /\ UNCHANGED <<run, rng, memo, rvs_size, drawn, x, y, xmax, ymax, flag,
                   x_fit, y_fit, call, x_dist, dx_dist, y_dist, dy_dist,
                   y_mid, plotted, prev>>

\* line 77: y_mid = 0.5 * (y_fit[1:] + y_fit[:-1])
MakeYmid ==
    /\ pc = "L77"
    /\ y_mid' = MidOf(y_fit)
    /\ pc' = "L81"
    /\ UNCHANGED <<run, rng, memo, rvs_size, drawn, x, y, xmax, ymax, flag,
                   x_fit, y_fit, call, x_dist, dx_dist, y_dist, dy_dist,
                   x_mid, plotted, prev>>

\* lines 81-120: the figure. ax.errorbar(x_mid, x_dist, dx_dist) and
\* ax.errorbar(y_mid, y_dist, dy_dist) raise when their arguments differ in
\* length; plt.show() ends the script
Plot ==
    /\ pc = "L81"
    /\ IF /\ Len(x_dist) = Len(x_mid) /\ Len(dx_dist) = Len(x_mid)
          /\ Len(y_dist) = Len(y_mid) /\ Len(dy_dist) = Len(y_mid)
       THEN plotted' = TRUE /\ pc' = "done"
       ELSE plotted' = FALSE /\ pc' = "error"
    /\ UNCHANGED <<run, rng, memo, rvs_size, drawn, x, y, xmax, ymax, flag,
                   x_fit, y_fit, call, x_dist, dx_dist, y_dist, dy_dist,
                   x_mid, y_mid, prev>>

\* the script is run again, in a new process: nothing of the old process is
\* left but what the observer noted of it; the generator library is the same
NewRun ==
    /\ pc \in {"done", "error"}
    /\ run < MaxRuns
    /\ run' = run + 1
    /\ prev' = Outcome
    /\ pc' = "L39"
    /\ rng' \in {<<e, 0>> : e \in EntropyIds}
    /\ rvs_size' = 0
    /\ drawn' = [x |-> <<>>, y |-> <<>>]
    /\ x' = <<>> /\ y' = <<>> /\ xmax' = <<>> /\ ymax' = <<>> /\ flag' = <<>>
    /\ x_fit' = <<>> /\ y_fit' = <<>>
    /\ call' = NoCall
    /\ x_dist' = <<>> /\ dx_dist' = <<>> /\ y_dist' = <<>> /\ dy_dist' = <<>>
    /\ x_mid' = <<>> /\ y_mid' = <<>>
    /\ plotted' = FALSE
    /\ UNCHANGED memo

Next ==
    \/ Seed \/ DrawX \/ DrawY
    \/ ComputeXmax \/ ClipXmax \/ ComputeYmax \/ ClipYmax
    \/ ComputeFlag \/ FilterX \/ FilterY \/ FilterXmax \/ FilterYmax
    \/ MakeXfit \/ MakeYfit
    \/ CallEstimator
    \/ MakeXmid \/ MakeYmid
    \/ Plot
    \/ NewRun

Spec == Init /\ [][Next]_vars

---------------------------------------------------------------------------
(* The truncation rule on its own: lines 53-60 applied to one observation   *)
(* (x, y), for every pair of floats of the format in the support [0, 1) of  *)
(* the two distributions down to MaxBinades binades below 1                 *)

FloatInputs ==
    {Zero} \cup
    {Rat(k, Pow2(Precision - 1 + b)) :
        k \in Pow2(Precision - 1)..(Pow2(Precision) - 1), b \in 1..MaxBinades}

InitTrunc ==
    /\ pc = "L53"
    /\ run = 1
    /\ rng = <<SeedValue, 2 * RvsSize>>
    /\ memo = <<>>
    /\ prev = NoRun
    /\ rvs_size = RvsSize
    /\ \E a \in FloatInputs, b \in FloatInputs :
          /\ x = <<a>> /\ y = <<b>>
          /\ drawn = [x |-> <<a>>, y |-> <<b>>]
    /\ xmax = <<>> /\ ymax = <<>> /\ flag = <<>>
    /\ x_fit = <<>> /\ y_fit = <<>>
    /\ call = NoCall
    /\ x_dist = <<>> /\ dx_dist = <<>> /\ y_dist = <<>> /\ dy_dist = <<>>
    /\ x_mid = <<>> /\ y_mid = <<>>
    /\ plotted = FALSE

NextTrunc ==
    \/ ComputeXmax \/ ClipXmax \/ ComputeYmax \/ ClipYmax \/ ComputeFlag

SpecTrunc == InitTrunc /\ [][NextTrunc]_vars

---------------------------------------------------------------------------
(* Properties *)

\* the source line the script has reached; an exception ends it at the call
\* (line 71) or in the figure (line 81)
LineNo ==
    CASE pc = "L39" -> 39 [] pc = "L45" -> 45 [] pc = "L46" -> 46
      [] pc = "L53" -> 53 [] pc = "L54" -> 54 [] pc = "L56" -> 56
      [] pc = "L57" -> 57 [] pc = "L60" -> 60 [] pc = "L61" -> 61
      [] pc = "L62" -> 62 [] pc = "L63" -> 63 [] pc = "L64" -> 64
      [] pc = "L66" -> 66 [] pc = "L67" -> 67 [] pc = "L71" -> 71
      [] pc = "L76" -> 76 [] pc = "L77" -> 77 [] pc = "L81" -> 81
      [] pc = "done" -> 121
      [] OTHER -> IF Len(x_mid) > 0 THEN 81 ELSE 75

\* the arrays are as bootstrap_Cminus is given them: the call is about to be
\* made or has been made
Passed == pc = "L71" \/ call.made

\* the estimator has returned its four sequences
Returned == call.made /\ Len(x_dist) > 0

\* min(1, 1/(0.5 + t) - 0.5), exactly
ExactLimit(t) ==
    LET m == RSub(RDiv(One, RAdd(Half, t)), Half)
    IN  IF RLt(One, m) THEN One ELSE m

\* min(1, max_func(t)), in the arithmetic of the script
FloatLimit(t) ==
    LET m == max_func(t) IN IF RLt(One, m) THEN One ELSE m

\* (a + 0.5)(b + 0.5), exactly
Product(a, b) == RMul(RAdd(a, Half), RAdd(b, Half))

\* whether lines 53-60 retain the single observation (a, b)
RetainedPoint(a, b) ==
    FlagOf(<<a>>, <<b>>, ClipOf(XmaxOf(<<a>>, <<b>>)),
           ClipOf(YmaxOf(<<a>>, <<b>>)))[1]

\* the sum of density * bin width over a fit grid
WeightedSum(d, fit) ==
    RSumRange([k \in 1..Len(d) |-> RMul(d[k], RSub(fit[k + 1], fit[k]))],
              1, Len(d))

\* C1: when bootstrap_Cminus is called, every retained observation i has
\* x_i < xmax_i and y_i < ymax_i: no point at or beyond a limit is passed
C1_RetainedInsideLimits ==
    Passed =>
        \A i \in 1..Len(x) : RLt(x[i], xmax[i]) /\ RLt(y[i], ymax[i])

\* a call whose sample kept one point and dropped another
C1_Witness ==
    /\ pc = "L71"
    /\ Len(x) >= 1
    /\ Len(x) < Len(drawn.x)

\* C2: for every retained index i the limits are the clipped rule applied
\* to that point's own coordinates, xmax_i = min(1, 1/(0.5 + y_i) - 0.5) and
\* ymax_i = min(1, 1/(0.5 + x_i) - 0.5), as the script's arithmetic
\* evaluates them, hence within rounding (8 * 2^-Precision) of their exact
\* values
C2_LimitsPairedWithPoints ==
    Passed =>
        \A i \in 1..Len(x) :
            /\ xmax[i] = FloatLimit(y[i])
            /\ ymax[i] = FloatLimit(x[i])
            /\ RLe(RAbs(RSub(xmax[i], ExactLimit(y[i]))), RAdd(Margin, Margin))
            /\ RLe(RAbs(RSub(ymax[i], ExactLimit(x[i]))), RAdd(Margin, Margin))

\* a call after a point was dropped, with a retained point whose xmax was
\* clipped and whose ymax was not
C2_Witness ==
    /\ Passed
    /\ Len(x) < Len(drawn.x)
    /\ \E i \in 1..Len(x) :
          xmax[i] = One /\ RLt(ymax[i], One) /\ x[i] # y[i]

\* C3: x, y, xmax and ymax as passed to the estimator have the same length,
\* whatever the sample and whatever the filter dropped
C3_SameLength ==
    Passed => Len(y) = Len(x) /\ Len(xmax) = Len(x) /\ Len(ymax) = Len(x)

\* a call with arrays the filter shortened
C3_Witness ==
    /\ Passed
    /\ Len(x) >= 1 /\ Len(x) < Len(drawn.x) /\ Len(ymax) = Len(x)

\* C4: when the filter retains no point, the run ends in an error: no
\* density or error sequence is produced and nothing is plotted
C4_EmptySampleFails ==
    (call.made /\ Len(x) = 0) =>
        /\ pc = "error"
        /\ x_dist = <<>> /\ dx_dist = <<>> /\ y_dist = <<>> /\ dy_dist = <<>>
        /\ ~plotted

\* a sample was drawn, all of it truncated, and the call made
C4_Witness ==
    /\ call.made
    /\ Len(drawn.x) > 0 /\ Len(drawn.y) > 0
    /\ Len(x) = 0
    /\ pc = "error"

\* C5: called with normalize=True, the x density times the bin widths of
\* x_fit sums to 1, and the y density over y_fit likewise
C5_Normalized ==
    Returned =>
        /\ WeightedSum(x_dist, x_fit) = One
        /\ WeightedSum(y_dist, y_fit) = One

\* the estimator returned for a sample of two different retained points
C5_Witness ==
    /\ Returned
    /\ call.normalize
    /\ Len(x) >= 2 /\ x[1] # x[2]

\* C6: a second run with the same seed draws the same sample, retains the
\* same sample and gets the same four outputs as the run before it, and the
\* bootstrap errors come from the generator stream the script seeded
C6_Reproducible ==
    /\ (run > 1 /\ pc \in {"done", "error"}) => Outcome = prev
    /\ Returned =>
          \A k \in 1..Len(dx_dist) :
              dx_dist[k].stream = SeedValue /\ dy_dist[k].stream = SeedValue

\* a second run that ended with a figure, of a sample partly truncated
C6_Witness ==
    /\ run > 1
    /\ pc = "done"
    /\ prev.status = "done"
    /\ Len(x) >= 1 /\ Len(x) < Len(drawn.x)

\* a fit grid of 21 strictly increasing edges from 0 to 1
C7_Grid(fit) ==
    /\ Len(fit) = 21
    /\ Len(fit) >= 2
    /\ fit[1] = Zero /\ fit[Len(fit)] = One
    /\ \A k \in 1..(Len(fit) - 1) : RLt(fit[k], fit[k + 1])

\* 20 midpoints, midpoint k strictly between edges k and k+1 of the grid
C7_Mid(mid, fit) ==
    /\ Len(mid) = 20
    /\ Len(mid) = Len(fit) - 1
    /\ \A k \in 1..Len(mid) : RLt(fit[k], mid[k]) /\ RLt(mid[k], fit[k + 1])

\* C7: each fit grid is a strictly increasing sequence of 21 edges from 0 to
\* 1; x_mid and y_mid have 20 elements, midpoint k strictly between edge k
\* and edge k+1, one for each element of the estimator's four outputs
C7_GridAndMidpoints ==
    /\ LineNo > 66 => C7_Grid(x_fit)
    /\ LineNo > 67 => C7_Grid(y_fit)
    /\ LineNo > 76 => C7_Mid(x_mid, x_fit)
    /\ LineNo > 77 =>
          /\ C7_Mid(y_mid, y_fit)
          /\ Len(x_dist) = Len(x_mid) /\ Len(dx_dist) = Len(x_mid)
          /\ Len(y_dist) = Len(y_mid) /\ Len(dy_dist) = Len(y_mid)

\* the figure was drawn from the midpoints and the outputs
C7_Witness ==
    /\ pc = "done"
    /\ plotted
    /\ Len(x_mid) = 20 /\ Len(x_dist) = 20

\* C8 as stated: the sample is N = 1000 points drawn from the two
\* truncated normals, estimated with 20 bootstrap replicates
C8_Original ==
    /\ LineNo > 45 => rvs_size = 1000
    /\ call.made => call.Nbootstraps = 20

\* C8, amended: the sample is N = 10000 points drawn from the two truncated
\* normals, before the truncation rule is applied, estimated with 20
\* bootstrap replicates
C8_Amended ==
    /\ LineNo > 45 => rvs_size = 10000
    /\ LineNo > 46 => Len(drawn.x) = Len(drawn.y) /\ Len(drawn.x) = SampleLen
    /\ call.made => call.Nbootstraps = 20

\* both draws were made and the estimator called
C8_Witness ==
    /\ call.made
    /\ rvs_size = 10000
    /\ call.Nbootstraps = 20
    /\ Len(drawn.y) > 0

\* C9 as stated: for every drawn point the two filter conditions are
\* equivalent, both being (x + 0.5)(y + 0.5) < 1, so the point is retained
\* iff the swapped point is, and the conjunction retains what either
\* condition alone retains
C9_Original ==
    pc = "L61" =>
        \A i \in 1..Len(x) :
            /\ RLt(x[i], xmax[i]) <=> RLt(y[i], ymax[i])
            /\ RLt(x[i], xmax[i]) <=> RLt(Product(x[i], y[i]), One)
            /\ flag[i] <=> RLt(x[i], xmax[i])
            /\ flag[i] <=> RLt(y[i], ymax[i])
            /\ flag[i] <=> RetainedPoint(y[i], x[i])

\* C9, amended: a point (a, b) is retained iff the swapped point (b, a)
\* would be; a retained point meets both conditions; and the two conditions
\* are equivalent, both being (x + 0.5)(y + 0.5) < 1, for every point whose
\* product (x + 0.5)(y + 0.5) is at least 4 * 2^-Precision away from 1:
\* nearer the boundary, rounding can make one condition hold without the
\* other
C9_Amended ==
    pc = "L61" =>
        \A i \in 1..Len(x) :
            /\ flag[i] <=> RetainedPoint(y[i], x[i])
            /\ flag[i] <=> (RLt(x[i], xmax[i]) /\ RLt(y[i], ymax[i]))
            /\ RLe(Margin, RAbs(RSub(Product(x[i], y[i]), One))) =>
                  /\ RLt(x[i], xmax[i]) <=> RLt(Product(x[i], y[i]), One)
                  /\ RLt(y[i], ymax[i]) <=> RLt(Product(x[i], y[i]), One)
                  /\ flag[i] <=> RLt(x[i], xmax[i])

\* a retained point off the diagonal and away from the boundary
C9_Witness ==
    /\ pc = "L61"
    /\ flag[1]
    /\ x[1] # y[1]
    /\ RLe(Margin, RAbs(RSub(Product(x[1], y[1]), One)))

\* C10: after the clipping every xmax_i and ymax_i is at most 1, hence every
\* x_i and y_i passed to the estimator is strictly below 1, the top edge of
\* the fit grid
C10_BelowTopEdge ==
    /\ LineNo > 54 => \A i \in DOMAIN xmax : RLe(xmax[i], One)
    /\ LineNo > 57 => \A i \in DOMAIN ymax : RLe(ymax[i], One)
    /\ Passed =>
          /\ \A i \in DOMAIN x : RLt(x[i], One) /\ RLt(x[i], x_fit[Len(x_fit)])
          /\ \A i \in DOMAIN y : RLt(y[i], One) /\ RLt(y[i], y_fit[Len(y_fit)])

\* a retained point near the top edge whose limit was clipped to 1
C10_Witness ==
    /\ Passed
    /\ \E i \in 1..Len(y) : ymax[i] = One /\ RLt(Half, y[i])

===========================================================================
